---- MODULE Spec2Model ----
(***************************************************************************)
(* Model of the Telegram monitoring bot (E-Stanislav/tg_system_bot):       *)
(*   - the live-temperature sessions of bot.py (start / stop callback      *)
(*     handlers and the updater task update_temperature_live),             *)
(*   - the alert scan background_monitoring of modules/monitoring.py,      *)
(*   - the overheat loop background_temperature_alerts of the same file,   *)
(*   - the report loop scheduled_status of the same file.                  *)
(* Every coroutine is cut at its awaits: one action runs the code from one *)
(* await to the next, as the asyncio event loop does.  The two background  *)
(* loops are cut once more at every component they evaluate; their state   *)
(* is local to the loop, so the finer cut adds no behaviour.               *)
(***************************************************************************)
EXTENDS Integers, Sequences, FiniteSets, TLC

\* ------------------------------------------------------------------------
\* Bounds of the model
\* ------------------------------------------------------------------------

\* number of callback-handler invocations explored (start and stop together)
MaxCalls == 2
\* update budget of a live session; bot.py:788 sets 300, explored with a small one
max_updates == 2

None == 0

\* core/config.py
ALERT_CPU_THRESHOLD == 90
ALERT_RAM_THRESHOLD == 90
ALERT_DISK_THRESHOLD == 10
ALERT_TEMP_THRESHOLD == 50
TEMP_ALERT_HYSTERESIS == 3

\* core/config.py:67-68 lists four services and four containers, two names
\* ("nginx", "mysql") being in both lists; the model keeps one shared name
\* and one name of its own in each list.
ALERT_SERVICES == <<"nginx", "docker">>
ALERT_DOCKER_CONTAINERS == <<"nginx", "redis">>

Chats == {1}

VARIABLES
    \* bot.py:36  chat_id -> updater task (None when the key is absent)
    live_temp_sessions,
    \* bot.py:38  chat_id -> message id of the live message (None when absent)
    live_temp_message_ids,
    \* the updater tasks created so far, in creation order
    tasks,
    \* the callback handler coroutines started so far, in call order
    handlers,
    \* history: handler calls and returns, in order
    hlog,
    \* history: number of live messages sent per chat
    msgCreated,
    \* monitoring.py:37  the alert state of background_monitoring
    last_alerts,
    \* where background_monitoring stands: [pc, i] (i: position in the list walked)
    mon,
    \* monitoring.py:41  the SystemStatus read at the top of the cycle
    status,
    \* monitoring.py:104  the DockerInfo read in the cycle
    docker_info,
    \* monitoring.py:150  zones for which an overheat alert is outstanding
    overheated_now,
    \* where background_temperature_alerts stands: [pc, i]
    tmon,
    \* monitoring.py:154  the zone temperatures read in the cycle
    temps,
    \* history: the evaluation a loop has just made (none while it sleeps)
    last,
    \* history: components with a RAISE delivered since their last healthy reading
    episode,
    \* history: progress of the CPU readings along CpuScenario, with the events
    cpuScn,
    \* history: progress of the first zone's readings along TempScenario
    tempScn,
    \* history: where and why an exception cut the cycle of background_monitoring
    \* short (nothing while the cycle runs or when it ran to its end)
    cut,
    \* where scheduled_status stands: "gather", "send" or "sleep"
    sched,
    \* auth.py:28,43  the user id of the update being dispatched (None: no from_user)
    from_user,
    \* history: the update being dispatched was answered with the refusal
    refused,
    \* the callback data of the inline buttons the bot has put on display
    buttons,
    \* history: the operations whose confirmation prompt has been displayed
    prompted,
    \* the external command a request handler is awaiting (NoCommand: none)
    running,
    \* system_monitor.py:325  the run_command call in progress
    proc,
    \* the module-level configuration: what the loaders found and what they set
    conf

liveVars == <<live_temp_sessions, live_temp_message_ids, tasks, handlers, hlog, msgCreated>>
monVars == <<last_alerts, mon, status, docker_info>>
tempVars == <<overheated_now, tmon, temps>>
histVars == <<last, episode, cpuScn, tempScn, cut>>

schedVars == <<sched>>
reqVars == <<from_user, refused, buttons, prompted, running>>
cmdVars == <<proc>>
confVars == <<conf>>
restVars == <<reqVars, cmdVars, confVars>>

vars == <<liveVars, monVars, tempVars, histVars, schedVars, restVars>>

notLive == <<monVars, tempVars, histVars, schedVars, restVars>>

\* ------------------------------------------------------------------------
\* Live sessions (bot.py)
\* ------------------------------------------------------------------------

\* a handler coroutine that has returned or raised
Finished(h) == [handlers EXCEPT ![h].pc = "done", ![h].msg = None,
                                ![h].send_failed = FALSE]

\* a handler coroutine is called and runs to its first await, where it stands at pc
\* send_failed (history only): the handler stands in its `except` block
\* because the send of the initial live message raised
Called(kind, c, pc, msg) ==
    Append(handlers, [kind |-> kind, chat |-> c, pc |-> pc, msg |-> msg,
                      send_failed |-> FALSE])

\* asyncio.Task.done()
TaskDone(t) == tasks[t].pc = "done"

\* history only: chat c has a registered updater task that has not finished
Running(c) ==
    /\ live_temp_sessions[c] # None
    /\ tasks[live_temp_sessions[c]].pc # "done"

NumCalls == Cardinality({i \in 1..Len(hlog) : hlog[i].ph = "call"})

Pop(map, c) == [map EXCEPT ![c] = None]

InitLive ==
    /\ live_temp_sessions = [c \in Chats |-> None]
    /\ live_temp_message_ids = [c \in Chats |-> None]
    /\ tasks = <<>>
    /\ handlers = <<>>
    /\ hlog = <<>>
    /\ msgCreated = [c \in Chats |-> 0]

\* mutant of SessionActive: the running session is not recognised
SessionActive_Never(c) == FALSE

\* mutant of SessionActive: a registered session counts as active although its
\* task is done
SessionActive_Stale(c) == live_temp_sessions[c] # None

\* The check at the top of cb_show_temperature_live: is there a running session?
SessionActive(c) ==
    /\ live_temp_sessions[c] # None
    /\ ~TaskDone(live_temp_sessions[c])

\* get_detailed_temperature_info() followed by render_temperature_html():
\* TRUE when they return, FALSE when one of them raises
TempInfoResults == BOOLEAN

\* cb_show_temperature_live from its call to its first await.
\* tempOk: get_detailed_temperature_info() returned (it raised otherwise).
StartCall(c, tempOk) ==
    /\ NumCalls < MaxCalls
    /\ hlog' = Append(hlog, [ev |-> "start", chat |-> c, ph |-> "call",
                             active |-> Running(c)])
    /\ IF SessionActive(c)
       THEN /\ handlers' = IF tempOk
                            THEN Called("start", c, "refresh_edit", live_temp_message_ids[c])
                            ELSE Called("start", c, "answer", None)
            /\ UNCHANGED <<live_temp_sessions, live_temp_message_ids>>
       ELSE /\ IF live_temp_sessions[c] # None
               THEN /\ live_temp_sessions' = Pop(live_temp_sessions, c)
                    /\ live_temp_message_ids' = Pop(live_temp_message_ids, c)
               ELSE UNCHANGED <<live_temp_sessions, live_temp_message_ids>>
            /\ handlers' = Called("start", c, IF tempOk THEN "send" ELSE "fallback_answer",
                                   None)
    /\ UNCHANGED <<tasks, msgCreated>>
    /\ UNCHANGED notLive

\* asyncio.create_task(update_temperature_live(chat_id, message_id, keyboard))
\* exit (history only): why the task ended, "" while it has not
\* displaced (history only): when the task went through its `finally`, the
\* entry of its chat referred to another task that was still running
NewTask(c, mid) ==
    [chat |-> c, message_id |-> mid, pc |-> "pending", update_count |-> 0,
     must_cancel |-> FALSE, exit |-> "", displaced |-> FALSE]

\* `await callback.message.answer(text, ...)` of the fresh start returns (ok) or raises.
StartSendReturn(h, ok) ==
    /\ handlers[h].kind = "start"
    /\ handlers[h].pc = "send"
    /\ LET c == handlers[h].chat
           mid == Len(tasks) + 1
       IN IF ok
          THEN /\ live_temp_message_ids' = [live_temp_message_ids EXCEPT ![c] = mid]
               /\ tasks' = Append(tasks, NewTask(c, mid))
               /\ live_temp_sessions' = [live_temp_sessions EXCEPT ![c] = Len(tasks) + 1]
               /\ msgCreated' = [msgCreated EXCEPT ![c] = @ + 1]
               /\ handlers' = [handlers EXCEPT ![h].pc = "answer"]
          ELSE /\ handlers' = [handlers EXCEPT ![h].pc = "fallback_answer",
                                                ![h].send_failed = TRUE]
               /\ UNCHANGED <<live_temp_sessions, live_temp_message_ids, tasks, msgCreated>>
    /\ UNCHANGED hlog
    /\ UNCHANGED notLive

\* mutant of StartRefreshReturn: a failed refresh edit drops the session
StartRefreshReturn_DropsOnError(h, ok) ==
    /\ handlers[h].kind = "start"
    /\ handlers[h].pc = "refresh_edit"
    /\ handlers' = [handlers EXCEPT ![h].pc = "answer", ![h].msg = None]
    /\ IF ok
       THEN UNCHANGED <<live_temp_sessions, live_temp_message_ids>>
       ELSE /\ live_temp_sessions' = Pop(live_temp_sessions, handlers[h].chat)
            /\ live_temp_message_ids' = Pop(live_temp_message_ids, handlers[h].chat)
    /\ UNCHANGED <<tasks, hlog, msgCreated>>
    /\ UNCHANGED notLive

\* `await bot.edit_message_text(...)` of the refresh branch returns or raises;
\* the error is ignored, then callback.answer("Live уже активен") and return.
StartRefreshReturn(h, ok) ==
    /\ handlers[h].kind = "start"
    /\ handlers[h].pc = "refresh_edit"
    /\ handlers' = [handlers EXCEPT ![h].pc = "answer", ![h].msg = None]
    /\ UNCHANGED <<live_temp_sessions, live_temp_message_ids, tasks, hlog, msgCreated>>
    /\ UNCHANGED notLive

\* mutant of StopCall: pop(chat_id) without a default raises KeyError when the
\* chat has no entry
StopCall_NoDefault(c) ==
    /\ NumCalls < MaxCalls
    /\ hlog' = Append(hlog, [ev |-> "stop", chat |-> c, ph |-> "call",
                             active |-> Running(c)])
    /\ LET task == live_temp_sessions[c]
       IN /\ live_temp_sessions' = Pop(live_temp_sessions, c)
          /\ live_temp_message_ids' = Pop(live_temp_message_ids, c)
          /\ tasks' = IF task # None /\ ~TaskDone(task)
                      THEN [tasks EXCEPT ![task].must_cancel = TRUE]
                      ELSE tasks
          /\ handlers' = Called("stop", c, IF task = None THEN "done" ELSE "stop_edit", None)
    /\ UNCHANGED msgCreated
    /\ UNCHANGED notLive

\* mutant of StopCall: the message id of the chat is left in its map
StopCall_KeepsMessageId(c) ==
    /\ NumCalls < MaxCalls
    /\ hlog' = Append(hlog, [ev |-> "stop", chat |-> c, ph |-> "call",
                             active |-> Running(c)])
    /\ LET task == live_temp_sessions[c]
       IN /\ live_temp_sessions' = Pop(live_temp_sessions, c)
          /\ tasks' = IF task # None /\ ~TaskDone(task)
                      THEN [tasks EXCEPT ![task].must_cancel = TRUE]
                      ELSE tasks
    /\ handlers' = Called("stop", c, "stop_edit", None)
    /\ UNCHANGED <<live_temp_message_ids, msgCreated>>
    /\ UNCHANGED notLive

\* cb_stop_live_temperature from its call to its first await.
StopCall(c) ==
    /\ NumCalls < MaxCalls
    /\ hlog' = Append(hlog, [ev |-> "stop", chat |-> c, ph |-> "call",
                             active |-> Running(c)])
    /\ LET task == live_temp_sessions[c]
       IN /\ live_temp_sessions' = Pop(live_temp_sessions, c)
          /\ live_temp_message_ids' = Pop(live_temp_message_ids, c)
          /\ tasks' = IF task # None /\ ~TaskDone(task)
                      THEN [tasks EXCEPT ![task].must_cancel = TRUE]
                      ELSE tasks
    /\ handlers' = Called("stop", c, "stop_edit", None)
    /\ UNCHANGED msgCreated
    /\ UNCHANGED notLive

\* `await callback.message.edit_text("... остановлен")` returns or raises.
StopEditReturn(h, ok) ==
    /\ handlers[h].kind = "stop"
    /\ handlers[h].pc = "stop_edit"
    /\ handlers' = [handlers EXCEPT ![h].pc = IF ok THEN "answer" ELSE "fallback_answer"]
    /\ UNCHANGED <<live_temp_sessions, live_temp_message_ids, tasks, hlog, msgCreated>>
    /\ UNCHANGED notLive

\* `await callback.message.answer(...)` outside any try (bot.py:576, 602):
\* when it raises, the exception leaves the handler.
FallbackAnswerReturn(h, ok) ==
    /\ handlers[h].pc = "fallback_answer"
    /\ IF ok
       THEN /\ handlers' = [handlers EXCEPT ![h].pc = "answer", ![h].send_failed = FALSE]
            /\ UNCHANGED hlog
       ELSE /\ handlers' = Finished(h)
            /\ hlog' = Append(hlog, [ev |-> handlers[h].kind, chat |-> handlers[h].chat,
                                     ph |-> "raise", active |-> FALSE])
    /\ UNCHANGED <<live_temp_sessions, live_temp_message_ids, tasks, msgCreated>>
    /\ UNCHANGED notLive

\* the final `await callback.answer(...)`; the handler is over either way.
AnswerReturn(h, ok) ==
    /\ handlers[h].pc = "answer"
    /\ handlers' = Finished(h)
    /\ hlog' = Append(hlog, [ev |-> handlers[h].kind, chat |-> handlers[h].chat,
                             ph |-> IF ok THEN "ret" ELSE "raise", active |-> FALSE])
    /\ UNCHANGED <<live_temp_sessions, live_temp_message_ids, tasks, msgCreated>>
    /\ UNCHANGED notLive

\* the entry of the chat of task t refers to another task, which has not ended
Displaced(t) ==
    LET cur == live_temp_sessions[tasks[t].chat]
    IN cur # None /\ cur # t /\ ~TaskDone(cur)

\* mutant of CleanupGuard: whatever entry the chat has is removed
CleanupGuard_AnyEntry(t) == live_temp_sessions[tasks[t].chat] # None

\* The guard of the `finally` of update_temperature_live (bot.py:814-815),
\* evaluated while task t itself is still running.
CleanupGuard(t) ==
    LET cur == live_temp_sessions[tasks[t].chat]
    IN cur # None /\ TaskDone(cur)

\* Task t leaves its coroutine through the `finally` block.
TaskFinish(t, why) ==
    /\ tasks' = [tasks EXCEPT ![t].pc = "done", ![t].exit = why,
                              ![t].displaced = Displaced(t)]
    /\ IF CleanupGuard(t)
       THEN /\ live_temp_sessions' = Pop(live_temp_sessions, tasks[t].chat)
            /\ live_temp_message_ids' = Pop(live_temp_message_ids, tasks[t].chat)
       ELSE UNCHANGED <<live_temp_sessions, live_temp_message_ids>>

\* mutant of LoopTop: the count starts over when the budget is reached
LoopTop_StartsOver(t, count, tempOk) ==
    IF tempOk
    THEN /\ tasks' = [tasks EXCEPT ![t].pc = "edit",
                                  ![t].update_count = IF count < max_updates THEN count ELSE 0]
         /\ UNCHANGED <<live_temp_sessions, live_temp_message_ids>>
    ELSE TaskFinish(t, "read")

\* mutant of LoopTop: the loop makes one more round when the budget is reached
LoopTop_OneMore(t, count, tempOk) ==
    IF count <= max_updates /\ tempOk
    THEN /\ tasks' = [tasks EXCEPT ![t].pc = "edit", ![t].update_count = count]
         /\ UNCHANGED <<live_temp_sessions, live_temp_message_ids>>
    ELSE TaskFinish(t, IF count < max_updates THEN "read" ELSE "budget")

\* The head of the while loop up to `await bot.edit_message_text`.
LoopTop(t, count, tempOk) ==
    IF count < max_updates /\ tempOk
    THEN /\ tasks' = [tasks EXCEPT ![t].pc = "edit", ![t].update_count = count]
         /\ UNCHANGED <<live_temp_sessions, live_temp_message_ids>>
    ELSE TaskFinish(t, IF count < max_updates THEN "read" ELSE "budget")

\* First step of a created task.  A task cancelled before its first step never
\* enters the coroutine body: neither `try` nor `finally` runs.
TaskRun(t, tempOk) ==
    /\ tasks[t].pc = "pending"
    /\ IF tasks[t].must_cancel
       THEN /\ tasks' = [tasks EXCEPT ![t].pc = "done", ![t].exit = "unrun"]
            /\ UNCHANGED <<live_temp_sessions, live_temp_message_ids>>
       ELSE LoopTop(t, 0, tempOk)
    /\ UNCHANGED <<handlers, hlog, msgCreated>>
    /\ UNCHANGED notLive

\* what `await bot.edit_message_text` gives: the edit was made, the transport
\* rejected it, or the message no longer exists (both are exceptions)
EditResults == {"ok", "error", "gone"}

\* `await bot.edit_message_text` of the updater resumes: CancelledError when a
\* cancel was requested, else the result or the exception of the call.
TaskEditReturn(t, res) ==
    /\ tasks[t].pc = "edit"
    /\ IF tasks[t].must_cancel
       THEN TaskFinish(t, "cancelled_edit")
       ELSE IF res = "ok"
       THEN /\ tasks' = [tasks EXCEPT ![t].pc = "sleep", ![t].update_count = @ + 1]
            /\ UNCHANGED <<live_temp_sessions, live_temp_message_ids>>
       ELSE TaskFinish(t, res)
    /\ UNCHANGED <<handlers, hlog, msgCreated>>
    /\ UNCHANGED notLive

\* mutant of TaskSleepReturn: the cancellation is not honoured at the sleep
TaskSleepReturn_IgnoresCancel(t, tempOk) ==
    /\ tasks[t].pc = "sleep"
    /\ LoopTop(t, tasks[t].update_count, tempOk)
    /\ UNCHANGED <<handlers, hlog, msgCreated>>
    /\ UNCHANGED notLive

\* `await asyncio.sleep(2)` resumes, then the next iteration begins.
TaskSleepReturn(t, tempOk) ==
    /\ tasks[t].pc = "sleep"
    /\ IF tasks[t].must_cancel
       THEN TaskFinish(t, "cancelled_sleep")
       ELSE LoopTop(t, tasks[t].update_count, tempOk)
    /\ UNCHANGED <<handlers, hlog, msgCreated>>
    /\ UNCHANGED notLive

NextLive ==
    \/ \E c \in Chats, tempOk \in TempInfoResults : StartCall(c, tempOk)
    \/ \E h \in 1..Len(handlers), ok \in BOOLEAN : StartSendReturn(h, ok)
    \/ \E h \in 1..Len(handlers), ok \in BOOLEAN : StartRefreshReturn(h, ok)
    \/ \E c \in Chats : StopCall(c)
    \/ \E h \in 1..Len(handlers), ok \in BOOLEAN : StopEditReturn(h, ok)
    \/ \E h \in 1..Len(handlers), ok \in BOOLEAN : FallbackAnswerReturn(h, ok)
    \/ \E h \in 1..Len(handlers), ok \in BOOLEAN : AnswerReturn(h, ok)
    \/ \E t \in 1..Len(tasks), tempOk \in TempInfoResults : TaskRun(t, tempOk)
    \/ \E t \in 1..Len(tasks), res \in EditResults : TaskEditReturn(t, res)
    \/ \E t \in 1..Len(tasks), tempOk \in TempInfoResults : TaskSleepReturn(t, tempOk)

\* ------------------------------------------------------------------------
\* History kept for the claims (no effect on the program state)
\* ------------------------------------------------------------------------

Comp(kind, name) == <<kind, name>>

NoEval ==
    [comp |-> Comp("none", ""), value |-> 0, breach |-> FALSE, before |-> FALSE,
     dup |-> FALSE, event |-> "NONE", ok |-> TRUE, after |-> FALSE]

\* One evaluation of component comp: the reading, the branch the code took
\* (breach), the component's alert flag as the code looks it up before and
\* after, the notification sent (event; ok: it was delivered).
Observe(comp, value, breach, before, event, ok, after) ==
    /\ last' = [comp |-> comp, value |-> value, breach |-> breach, before |-> before,
                dup |-> comp \in episode, event |-> event, ok |-> ok, after |-> after]
    /\ episode' = IF ~breach THEN episode \ {comp}
                  ELSE IF event = "RAISE" /\ ok THEN episode \cup {comp}
                  ELSE episode

\* spec.md section 8, the two concrete reading sequences
CpuScenario == <<95, 92, 88, 79, 96>>
TempScenario == <<49, 51, 48, 47>>

ScnInit == [k |-> 0, ev |-> <<>>]

\* Follow a reading sequence: k readings of `scenario` have been fed so far and
\* ev are the notifications they produced; k = -1 once the readings left the
\* scenario or a delivery failed.
ScnStep(scn, scenario, v, event, ok) ==
    IF scn.k >= 0 /\ scn.k < Len(scenario) /\ scenario[scn.k + 1] = v /\ ok
    THEN [k |-> scn.k + 1,
          ev |-> IF event = "NONE" THEN scn.ev ELSE Append(scn.ev, <<event, v>>)]
    ELSE [k |-> -1, ev |-> <<>>]

NoCut == [at |-> "", why |-> ""]

\* the exception of a read ("read") or of a delivery ("send") in stage `at`
\* reaches the `except Exception` of the cycle
CutBy(at, why) == [at |-> at, why |-> why]

InitHist ==
    /\ cut = NoCut
    /\ last = NoEval
    /\ episode = {}
    /\ cpuScn = ScnInit
    /\ tempScn = ScnInit

\* ------------------------------------------------------------------------
\* background_monitoring (modules/monitoring.py)
\* ------------------------------------------------------------------------

\* readings fed to the loop
CpuReadings == {79, 88, 90, 92, 95, 96}
RamReadings == {90, 95}
\* used percent of a mount: 90 leaves exactly ALERT_DISK_THRESHOLD free
DiskPercents == {90, 95}
DiskReadings ==
    {<<>>}
    \cup {<<[mount |-> "/", percent |-> p]>> : p \in DiskPercents}
    \cup {<<[mount |-> "/", percent |-> p], [mount |-> "/data", percent |-> q]>> :
            p \in DiskPercents, q \in {95}}
StatusReadings == [cpu : CpuReadings, ram : RamReadings, disks : DiskReadings]
\* outcome of `systemctl is-active`: active, not active, or run_command raised
ServiceReadings == {"active", "inactive", "raise"}
\* `docker ps -a`: name -> "Up ...", "Exited ..." or "" when not listed
ContainerNames == {"nginx", "redis", "other"}
DockerReadings == {info \in [ContainerNames -> {"", "Up", "Exited"}] : info["other"] # "Exited"}

NoStatus == [cpu |-> 0, ram |-> 0, disks |-> <<>>]
NoDocker == [n \in ContainerNames |-> ""]

InitMon ==
    /\ last_alerts = [cpu |-> FALSE, ram |-> FALSE, disk |-> {}, service |-> {}]
    /\ mon = [pc |-> "gather", i |-> 1]
    /\ status = NoStatus
    /\ docker_info = NoDocker

\* monitoring.py:44
CpuBreach(v) == v > ALERT_CPU_THRESHOLD
\* monitoring.py:66
RamBreach(v) == v > ALERT_RAM_THRESHOLD
\* monitoring.py:78-79
DiskBreach(percent) == (100 - percent) < ALERT_DISK_THRESHOLD
\* monitoring.py:93
ServiceBreach(res) == res # "active"
\* how a call of get_docker_info ends: the listing was read, `which docker`
\* failed, `docker ps` failed, or an exception was caught
DockerOutcomes == {"ok", "no_docker", "ps_failed", "raised"}

\* system_monitor.py:257-294: every failure gives DockerInfo(0, 0, [])
get_docker_info(outcome, listing) == IF outcome = "ok" THEN listing ELSE NoDocker

\* mutant of containers_total: the listing always counts as non-empty
containers_total_NeverEmpty(info) == 1

\* monitoring.py:105
containers_total(info) == Cardinality({n \in ContainerNames : info[n] # ""})

\* mutant of Abort: the exception is swallowed where it is raised and the
\* cycle goes on with the containers
Abort_GoesOn == [pc |-> "docker", i |-> 1]

\* mutant of Abort: the exception is not caught at the cycle boundary and ends
\* the loop's task
Abort_EndsLoop == [pc |-> "dead", i |-> 1]

\* The `except Exception` of the cycle: the rest of the cycle is skipped.
Abort == [pc |-> "sleep", i |-> 1]

\* status = gather_system_status(); ok = FALSE: it raised
MonGather(st, ok) ==
    /\ mon.pc = "gather"
    /\ IF ok
       THEN /\ status' = st
            /\ mon' = [pc |-> "cpu", i |-> 1]
            /\ UNCHANGED cut
       ELSE /\ status' = NoStatus
            /\ mon' = Abort
            /\ cut' = CutBy("gather", "read")
    /\ UNCHANGED <<last_alerts, docker_info, last, episode, cpuScn, tempScn, liveVars, tempVars, schedVars, restVars>>

\* monitoring.py:44-63.  ok: get_top_processes and send_message returned.
MonCpu(ok) ==
    /\ mon.pc = "cpu"
    /\ LET v == status.cpu
           before == last_alerts.cpu
           send == CpuBreach(v) /\ ~before
           after == IF CpuBreach(v) THEN before \/ ok ELSE FALSE
           event == IF send THEN "RAISE" ELSE "NONE"
       IN /\ send \/ ok
          /\ last_alerts' = [last_alerts EXCEPT !.cpu = after]
          /\ mon' = IF send /\ ~ok THEN Abort ELSE [pc |-> "ram", i |-> 1]
          /\ cut' = IF send /\ ~ok THEN CutBy("cpu", "send") ELSE cut
          /\ Observe(Comp("cpu", ""), v, CpuBreach(v), before, event, ok, after)
          /\ cpuScn' = ScnStep(cpuScn, CpuScenario, v, event, ok)
    /\ UNCHANGED <<status, docker_info, tempScn, liveVars, tempVars, schedVars, restVars>>

\* monitoring.py:66-74
MonRam(ok) ==
    /\ mon.pc = "ram"
    /\ LET v == status.ram
           before == last_alerts.ram
           send == RamBreach(v) /\ ~before
           after == IF RamBreach(v) THEN before \/ ok ELSE FALSE
       IN /\ send \/ ok
          /\ last_alerts' = [last_alerts EXCEPT !.ram = after]
          /\ mon' = IF send /\ ~ok THEN Abort ELSE [pc |-> "disk", i |-> 1]
          /\ cut' = IF send /\ ~ok THEN CutBy("ram", "send") ELSE cut
          /\ Observe(Comp("ram", ""), v, RamBreach(v), before,
                     IF send THEN "RAISE" ELSE "NONE", ok, after)
    /\ UNCHANGED <<status, docker_info, cpuScn, tempScn, liveVars, tempVars, schedVars, restVars>>

\* monitoring.py:77-88, one disk of status.disks
MonDisk(ok) ==
    /\ mon.pc = "disk"
    /\ mon.i <= Len(status.disks)
    /\ LET d == status.disks[mon.i]
           free_percent == 100 - d.percent
           before == d.mount \in last_alerts.disk
           send == DiskBreach(d.percent) /\ ~before
           after == IF DiskBreach(d.percent) THEN before \/ ok ELSE FALSE
       IN /\ send \/ ok
          /\ last_alerts' = [last_alerts EXCEPT !.disk =
                 IF after THEN @ \cup {d.mount} ELSE @ \ {d.mount}]
          /\ mon' = IF send /\ ~ok THEN Abort ELSE [mon EXCEPT !.i = @ + 1]
          /\ cut' = IF send /\ ~ok THEN CutBy("disk", "send") ELSE cut
          /\ Observe(Comp("disk", d.mount), free_percent, DiskBreach(d.percent), before,
                     IF send THEN "RAISE" ELSE "NONE", ok, after)
    /\ UNCHANGED <<status, docker_info, cpuScn, tempScn, liveVars, tempVars, schedVars, restVars>>

\* the disk loop is over; status is not read in the rest of the cycle
MonDiskEnd ==
    /\ mon.pc = "disk"
    /\ mon.i > Len(status.disks)
    /\ mon' = [pc |-> "service", i |-> 1]
    /\ status' = NoStatus
    /\ UNCHANGED <<last_alerts, docker_info, histVars, liveVars, tempVars, schedVars, restVars>>

\* monitoring.py:91-101, one service: run_command, then the check
MonService(res, ok) ==
    /\ mon.pc = "service"
    /\ mon.i <= Len(ALERT_SERVICES)
    /\ LET svc == ALERT_SERVICES[mon.i]
           before == svc \in last_alerts["service"]
           send == ServiceBreach(res) /\ ~before
           after == IF ServiceBreach(res) THEN before \/ ok ELSE FALSE
       IN /\ send \/ ok
          /\ IF res = "raise"
             THEN /\ ok
                  /\ mon' = Abort
                  /\ cut' = CutBy("service", "read")
                  /\ UNCHANGED <<last_alerts, last, episode>>
             ELSE /\ last_alerts' = [last_alerts EXCEPT !["service"] =
                         IF after THEN @ \cup {svc} ELSE @ \ {svc}]
                  /\ mon' = IF send /\ ~ok THEN Abort ELSE [mon EXCEPT !.i = @ + 1]
                  /\ cut' = IF send /\ ~ok THEN CutBy("service", "send") ELSE cut
                  /\ Observe(Comp("service", svc), 0, ServiceBreach(res), before,
                             IF send THEN "RAISE" ELSE "NONE", ok, after)
    /\ UNCHANGED <<status, docker_info, cpuScn, tempScn, liveVars, tempVars, schedVars, restVars>>

\* monitoring.py:104-105: docker_info = await get_docker_info(), which never raises
MonDocker(info) ==
    /\ mon.pc = "service"
    /\ mon.i > Len(ALERT_SERVICES)
    /\ docker_info' = info
    /\ mon' = IF containers_total(info) > 0 THEN [pc |-> "container", i |-> 1] ELSE Abort
    /\ UNCHANGED <<last_alerts, status, histVars, liveVars, tempVars, schedVars, restVars>>

\* monitoring.py:106-127, one tracked container
MonContainer(ok) ==
    /\ mon.pc = "container"
    /\ mon.i <= Len(ALERT_DOCKER_CONTAINERS)
    /\ LET container_name == ALERT_DOCKER_CONTAINERS[mon.i]
           container_found == docker_info[container_name] # ""
           up == docker_info[container_name] = "Up"
           before == container_name \in last_alerts["service"]
           breach == ~container_found \/ ~up
           send == breach /\ ~before
           after == IF breach THEN before \/ ok ELSE FALSE
       IN /\ send \/ ok
          /\ last_alerts' = [last_alerts EXCEPT !["service"] =
                 IF after THEN @ \cup {container_name} ELSE @ \ {container_name}]
          /\ mon' = IF send /\ ~ok THEN Abort ELSE [mon EXCEPT !.i = @ + 1]
          /\ cut' = IF send /\ ~ok THEN CutBy("container", "send") ELSE cut
          /\ Observe(Comp("container", container_name), 0, breach, before,
                     IF send THEN "RAISE" ELSE "NONE", ok, after)
    /\ UNCHANGED <<status, docker_info, cpuScn, tempScn, liveVars, tempVars, schedVars, restVars>>

\* the container loop is over
MonContainerEnd ==
    /\ mon.pc = "container"
    /\ mon.i > Len(ALERT_DOCKER_CONTAINERS)
    /\ mon' = Abort
    /\ UNCHANGED <<last_alerts, status, docker_info, histVars, liveVars, tempVars, schedVars, restVars>>

\* monitoring.py:132: await asyncio.sleep(60), then the next cycle
MonSleep ==
    /\ mon.pc = "sleep"
    /\ mon' = [pc |-> "gather", i |-> 1]
    /\ status' = NoStatus
    /\ docker_info' = NoDocker
    /\ last' = NoEval
    /\ cut' = NoCut
    /\ UNCHANGED <<last_alerts, episode, cpuScn, tempScn, liveVars, tempVars, schedVars, restVars>>

NextMon ==
    \/ \E st \in StatusReadings, ok \in BOOLEAN : MonGather(st, ok)
    \/ \E ok \in BOOLEAN : MonCpu(ok)
    \/ \E ok \in BOOLEAN : MonRam(ok)
    \/ \E ok \in BOOLEAN : MonDisk(ok)
    \/ MonDiskEnd
    \/ \E res \in ServiceReadings, ok \in BOOLEAN : MonService(res, ok)
    \/ \E outcome \in DockerOutcomes, info \in DockerReadings :
          MonDocker(get_docker_info(outcome, info))
    \/ \E ok \in BOOLEAN : MonContainer(ok)
    \/ MonContainerEnd
    \/ MonSleep

\* ------------------------------------------------------------------------
\* background_temperature_alerts (modules/monitoring.py)
\* ------------------------------------------------------------------------

\* the zones in the order the dict of get_thermal_zone_temperatures lists them
Zones == <<"cpu", "gpu">>
TempReadings ==
    {t \in [{"cpu", "gpu"} -> {None, 47, 48, 49, 50, 51}] : t["gpu"] \in {None, 47, 51}}
NoTemps == [z \in {"cpu", "gpu"} |-> None]

InitTemp ==
    /\ overheated_now = {}
    /\ tmon = [pc |-> "read", i |-> 1]
    /\ temps = NoTemps

\* monitoring.py:161
TempBreach(temp_c) == temp_c >= ALERT_TEMP_THRESHOLD
\* mutant of TempRecovered: the alert is reset as soon as the zone is below the threshold
TempRecovered_NoMargin(temp_c) == temp_c < ALERT_TEMP_THRESHOLD
\* mutant of TempRecovered: the margin has to be exceeded
TempRecovered_Strict(temp_c) == temp_c < ALERT_TEMP_THRESHOLD - TEMP_ALERT_HYSTERESIS

\* monitoring.py:180
TempRecovered(temp_c) == temp_c <= ALERT_TEMP_THRESHOLD - TEMP_ALERT_HYSTERESIS

\* mutant of TempRead: an empty reading forgets the outstanding alerts
TempRead_EmptyForgets(t, ok) ==
    /\ tmon.pc = "read"
    /\ IF ok /\ t # NoTemps
       THEN /\ temps' = t
            /\ tmon' = [pc |-> "zone", i |-> 1]
            /\ UNCHANGED overheated_now
       ELSE /\ temps' = NoTemps
            /\ tmon' = [pc |-> "sleep", i |-> 1]
            /\ overheated_now' = {}
    /\ UNCHANGED <<histVars, liveVars, monVars, schedVars, restVars>>

\* monitoring.py:154-158: temps = get_thermal_zone_temperatures(); ok = FALSE: it
\* raised.  An empty reading sleeps the interval and starts the next cycle.
TempRead(t, ok) ==
    /\ tmon.pc = "read"
    /\ IF ok /\ t # NoTemps
       THEN /\ temps' = t
            /\ tmon' = [pc |-> "zone", i |-> 1]
       ELSE /\ temps' = NoTemps
            /\ tmon' = [pc |-> "sleep", i |-> 1]
    /\ UNCHANGED <<overheated_now, histVars, liveVars, monVars, schedVars, restVars>>

\* a zone that is not in the dict is not visited
TempZoneAbsent ==
    /\ tmon.pc = "zone"
    /\ tmon.i <= Len(Zones)
    /\ temps[Zones[tmon.i]] = None
    /\ tmon' = [tmon EXCEPT !.i = @ + 1]
    /\ UNCHANGED <<overheated_now, temps, histVars, liveVars, monVars, schedVars, restVars>>

\* monitoring.py:160-195, one zone.  ok: send_message returned; its exception
\* is caught next to the call.
TempZone(ok) ==
    /\ tmon.pc = "zone"
    /\ tmon.i <= Len(Zones)
    /\ temps[Zones[tmon.i]] # None
    /\ LET component_name == Zones[tmon.i]
           temp_c == temps[component_name]
           before == component_name \in overheated_now
           raise == TempBreach(temp_c) /\ ~before
           clear == ~TempBreach(temp_c) /\ before /\ TempRecovered(temp_c)
           event == IF raise THEN "RAISE" ELSE IF clear THEN "CLEAR" ELSE "NONE"
           after == IF TempBreach(temp_c) THEN TRUE ELSE before /\ ~clear
       IN /\ (raise \/ clear) \/ ok
          /\ overheated_now' = IF after THEN overheated_now \cup {component_name}
                               ELSE overheated_now \ {component_name}
          /\ Observe(Comp("temp", component_name), temp_c, TempBreach(temp_c), before,
                     event, ok, after)
          /\ tempScn' = IF tmon.i = 1
                        THEN ScnStep(tempScn, TempScenario, temp_c, event, ok)
                        ELSE tempScn
    /\ tmon' = [tmon EXCEPT !.i = @ + 1]
    /\ UNCHANGED <<temps, cpuScn, cut, liveVars, monVars, schedVars, restVars>>

\* the zone loop is over
TempZoneEnd ==
    /\ tmon.pc = "zone"
    /\ tmon.i > Len(Zones)
    /\ tmon' = [pc |-> "sleep", i |-> 1]
    /\ UNCHANGED <<overheated_now, temps, histVars, liveVars, monVars, schedVars, restVars>>

\* monitoring.py:157, 200: await asyncio.sleep(TEMP_MONITOR_INTERVAL_SECONDS)
TempSleep ==
    /\ tmon.pc = "sleep"
    /\ tmon' = [pc |-> "read", i |-> 1]
    /\ temps' = NoTemps
    /\ last' = NoEval
    /\ UNCHANGED <<overheated_now, episode, cpuScn, tempScn, cut, liveVars, monVars, schedVars, restVars>>

NextTemp ==
    \/ \E t \in TempReadings, ok \in BOOLEAN : TempRead(t, ok)
    \/ TempZoneAbsent
    \/ \E ok \in BOOLEAN : TempZone(ok)
    \/ TempZoneEnd
    \/ TempSleep

\* ------------------------------------------------------------------------
\* scheduled_status (modules/monitoring.py)
\* ------------------------------------------------------------------------

InitSched == sched = "gather"

\* monitoring.py:211: status = gather_system_status(); when it raises, the
\* `except Exception` of the cycle logs it
SchedGather(ok) ==
    /\ sched = "gather"
    /\ sched' = IF ok THEN "send" ELSE "sleep"
    /\ UNCHANGED <<liveVars, monVars, tempVars, histVars, restVars>>

\* monitoring.py:212-218: await bot.send_message(...) returns or raises
SchedSend(ok) ==
    /\ sched = "send"
    /\ sched' = "sleep"
    /\ UNCHANGED <<liveVars, monVars, tempVars, histVars, restVars>>

\* monitoring.py:220: await asyncio.sleep(STATUS_SCHEDULE_SECONDS)
SchedSleep ==
    /\ sched = "sleep"
    /\ sched' = "gather"
    /\ UNCHANGED <<liveVars, monVars, tempVars, histVars, restVars>>

NextSched ==
    \/ \E ok \in BOOLEAN : SchedGather(ok)
    \/ \E ok \in BOOLEAN : SchedSend(ok)
    \/ SchedSleep

\* ------------------------------------------------------------------------
\* run_command (modules/system_monitor.py)
\* ------------------------------------------------------------------------

\* the clock readings followed while a command runs
MaxTime == 3

\* the `timeout` argument, in clock readings
Timeouts == 1..(MaxTime - 1)
\* the reading at which the process ends by itself
Durations == 0..MaxTime
\* proc.returncode of a process that ended by itself (-9: ended by a signal)
ExitCodes == {0, 1, 124, -9}
\* what the process wrote to a pipe: bytes, 255 is not valid UTF-8
ByteStrings == {<<>>, <<97>>, <<255>>, <<97, 255>>}

\* U+FFFD, what decode(errors="replace") puts for an undecodable byte
REPLACEMENT == 65533

\* system_monitor.py:342-343  bytes.decode(errors="replace"), to code points
Decode(b) == [i \in 1..Len(b) |-> IF b[i] < 128 THEN b[i] ELSE REPLACEMENT]

\* system_monitor.py:341  f"Command timed out after {timeout}s"
TimeoutMessage(timeout) == <<"Command timed out after ", timeout, "s">>

NoResult == [rc |-> 0, stdout |-> <<>>, stderr |-> <<>>]

Idle ==
    [pc |-> "idle", timeout |-> 0, dur |-> 0, clock |-> 0, returncode |-> 0,
     stdout_b |-> <<>>, stderr_b |-> <<>>, alive |-> FALSE, result |-> NoResult]

InitCmd == proc = Idle

notCmd == <<liveVars, monVars, tempVars, histVars, schedVars, reqVars, confVars>>

\* mutant of TimedOut: communicate() is awaited without a time limit
TimedOut_Never(p) == FALSE

\* system_monitor.py:337  asyncio.wait_for(..., timeout=timeout) gives up
TimedOut(p) == p.clock >= p.timeout

\* system_monitor.py:325-337: the call, up to the await of communicate().
\* spawned: create_subprocess_shell returned a process (it raised otherwise,
\* outside the try, and the exception leaves run_command).
RunCommand(timeout, dur, rc, out, err, spawned) ==
    /\ proc.pc = "idle"
    /\ proc' = IF spawned
               THEN [pc |-> "communicate", timeout |-> timeout, dur |-> dur, clock |-> 0,
                     returncode |-> rc, stdout_b |-> out, stderr_b |-> err,
                     alive |-> TRUE, result |-> NoResult]
               ELSE [Idle EXCEPT !.pc = "raised", !.timeout = timeout]
    /\ UNCHANGED notCmd

\* time passes while communicate() is awaited
CmdTick ==
    /\ proc.pc = "communicate"
    /\ proc.clock < proc.dur
    /\ ~TimedOut(proc)
    /\ proc' = [proc EXCEPT !.clock = @ + 1]
    /\ UNCHANGED notCmd

\* system_monitor.py:337, 342-345: the process has ended and its pipes are
\* read to the end, communicate() returns
CmdCommunicateReturn ==
    /\ proc.pc = "communicate"
    /\ proc.clock = proc.dur
    /\ proc' = [proc EXCEPT !.pc = "returned", !.alive = FALSE,
                            !.result = [rc |-> proc.returncode,
                                        stdout |-> Decode(proc.stdout_b),
                                        stderr |-> Decode(proc.stderr_b)]]
    /\ UNCHANGED notCmd

\* system_monitor.py:338-340: asyncio.TimeoutError, proc.kill(), up to the
\* await of proc.wait()
CmdTimeout ==
    /\ proc.pc = "communicate"
    /\ TimedOut(proc)
    /\ proc' = [proc EXCEPT !.pc = "wait", !.alive = FALSE]
    /\ UNCHANGED notCmd

\* system_monitor.py:340-341: proc.wait() returns, the killed process is reaped
CmdWaitReturn ==
    /\ proc.pc = "wait"
    /\ proc' = [proc EXCEPT !.pc = "returned",
                            !.result = [rc |-> 124, stdout |-> <<>>,
                                        stderr |-> TimeoutMessage(proc.timeout)]]
    /\ UNCHANGED notCmd

\* the caller has taken the result (or the exception)
CmdDone ==
    /\ proc.pc \in {"returned", "raised"}
    /\ proc' = Idle
    /\ UNCHANGED notCmd

NextCmd ==
    \/ \E timeout \in Timeouts, dur \in Durations, rc \in ExitCodes,
          out \in ByteStrings, err \in {<<>>, <<255>>}, spawned \in BOOLEAN :
          RunCommand(timeout, dur, rc, out, err, spawned)
    \/ CmdTick
    \/ CmdCommunicateReturn
    \/ CmdTimeout
    \/ CmdWaitReturn
    \/ CmdDone

\* ------------------------------------------------------------------------
\* Request handlers and the admin check (bot.py, modules/auth.py)
\* ------------------------------------------------------------------------

\* core/config.py:52  the configured administrator
ADMIN_ID_INT == 1
\* who sends updates: the administrator and somebody else (an update without
\* from_user has user_id None, which differs from ADMIN_ID_INT like any other id)
Users == {ADMIN_ID_INT, 2}

\* mutant of is_admin: everybody passes
is_admin_Anyone(user_id) == TRUE

\* auth.py:18-19
is_admin(user_id) == user_id = ADMIN_ID_INT

\* keyboards.py:40-55: the callback data of the buttons of the main menu
kb_main_menu ==
    {"RST", "SRV", "PRC", "DOC", "NET", "TEMP", "TEMP_LIVE", "OUTLINE_AUDIT",
     "CRB", "CSD", "CUP", "GET_IP"}

\* keyboards.py:57-61
kb_confirm(yes_data) == {yes_data, "IGNORE"}

\* keyboards.py:14-16  CBA.CONFIRM_REBOOT, CONFIRM_SHUTDOWN, CONFIRM_UPDATE
ConfirmData == [reboot |-> "CRB", shutdown |-> "CSD", update |-> "CUP"]
ConfirmOps == {"reboot", "shutdown", "update"}

\* bot.py:295  the actions /service accepts
ServiceActions == {"start", "stop", "restart", "status"}
\* the first word of the arguments of /service ("": no arguments)
ServiceArgs == ServiceActions \cup {"", "bogus"}

NoCommand == [op |-> "", by |-> None, via |-> ""]

InitReq ==
    /\ from_user = None
    /\ refused = ""
    /\ buttons = {}
    /\ prompted = {}
    /\ running = NoCommand

notReq == <<liveVars, monVars, tempVars, histVars, schedVars, cmdVars, confVars>>

\* auth.py:29-33 and 44-49: the refusal, the handler body is not entered
Refusal(handler) ==
    /\ refused' = handler
    /\ UNCHANGED <<from_user, buttons, prompted, running>>

\* auth.py:21-35: the decorator of the message commands
admin_only(handler, func) == IF is_admin(from_user) THEN func ELSE Refusal(handler)

\* auth.py:37-50 with the `if not await admin_only_callback(callback): return`
\* at the top of every callback handler
admin_only_callback(handler, body) == IF is_admin(from_user) THEN body ELSE Refusal(handler)

\* the dispatcher takes the next update, sent by user u
Update(u) ==
    /\ from_user # u \/ refused # ""
    /\ from_user' = u
    /\ refused' = ""
    /\ UNCHANGED <<buttons, prompted, running>>
    /\ UNCHANGED notReq

\* bot.py:194-201  /start: the main menu is put on display
cmd_start ==
    /\ admin_only("cmd_start",
                  /\ buttons' = buttons \cup kb_main_menu
                  /\ UNCHANGED <<from_user, refused, prompted, running>>)
    /\ UNCHANGED notReq

\* bot.py:227-246  /restart, /shutdown, /update: the confirmation prompt of op
cmd_confirm_prompt(op) ==
    /\ admin_only("cmd_" \o op,
                  /\ buttons' = buttons \cup kb_confirm(ConfirmData[op])
                  /\ prompted' = prompted \cup {op}
                  /\ UNCHANGED <<from_user, refused, running>>)
    /\ UNCHANGED notReq

\* bot.py:606-642  cb_confirm_reboot, cb_confirm_shutdown, cb_confirm_update,
\* called when a button with the callback data of op is tapped, up to the
\* await of the command (one command in flight is followed at a time)
cb_confirm(op) ==
    /\ ConfirmData[op] \in buttons
    /\ admin_only_callback("cb_confirm_" \o op,
                           /\ running = NoCommand
                           /\ running' = [op |-> op, by |-> from_user, via |-> "button"]
                           /\ UNCHANGED <<from_user, refused, buttons, prompted>>)
    /\ UNCHANGED notReq

\* bot.py:279-301  /service <action> <name>, up to the await of sudo_systemctl
\* or to the usage reply
cmd_service(action) ==
    /\ admin_only("cmd_service",
                  IF action \in ServiceActions
                  THEN /\ running = NoCommand
                       /\ running' = [op |-> action, by |-> from_user, via |-> "command"]
                       /\ UNCHANGED <<from_user, refused, buttons, prompted>>
                  ELSE /\ buttons' = buttons \cup kb_main_menu
                       /\ UNCHANGED <<from_user, refused, prompted, running>>)
    /\ UNCHANGED notReq

\* the awaited command returns and the handler replies with its result:
\* bot.py:614 (no keyboard after reboot and shutdown), 639, 301 (main menu)
CommandReturn ==
    /\ running # NoCommand
    /\ running' = NoCommand
    /\ buttons' = IF running.op \in {"reboot", "shutdown"}
                  THEN buttons ELSE buttons \cup kb_main_menu
    /\ UNCHANGED <<from_user, refused, prompted>>
    /\ UNCHANGED notReq

\* bot.py:525-528  cb_show_temperature_live behind its admin check
LiveStartRequest(c, tempOk) ==
    IF is_admin(from_user)
    THEN StartCall(c, tempOk)
    ELSE Refusal("cb_show_temperature_live") /\ UNCHANGED notReq

\* bot.py:580-583  cb_stop_live_temperature behind its admin check
LiveStopRequest(c) ==
    IF is_admin(from_user)
    THEN StopCall(c)
    ELSE Refusal("cb_stop_live_temperature") /\ UNCHANGED notReq

NextReq ==
    \/ \E u \in Users : Update(u)
    \/ cmd_start
    \/ \E op \in ConfirmOps : cmd_confirm_prompt(op)
    \/ \E op \in ConfirmOps : cb_confirm(op)
    \/ \E action \in ServiceArgs : cmd_service(action)
    \/ CommandReturn

\* the requests that reach the registry or a command, with the live sessions
NextAuth ==
    \/ \E u \in Users : Update(u)
    \/ \E c \in Chats, tempOk \in TempInfoResults : LiveStartRequest(c, tempOk)
    \/ \E c \in Chats : LiveStopRequest(c)
    \/ \E action \in ServiceArgs : cmd_service(action)
    \/ CommandReturn
    \/ \E h \in 1..Len(handlers), ok \in BOOLEAN : StartSendReturn(h, ok)
    \/ \E h \in 1..Len(handlers), ok \in BOOLEAN : StartRefreshReturn(h, ok)
    \/ \E h \in 1..Len(handlers), ok \in BOOLEAN : StopEditReturn(h, ok)
    \/ \E h \in 1..Len(handlers), ok \in BOOLEAN : FallbackAnswerReturn(h, ok)
    \/ \E h \in 1..Len(handlers), ok \in BOOLEAN : AnswerReturn(h, ok)
    \/ \E t \in 1..Len(tasks), tempOk \in TempInfoResults : TaskRun(t, tempOk)
    \/ \E t \in 1..Len(tasks), res \in EditResults : TaskEditReturn(t, res)
    \/ \E t \in 1..Len(tasks), tempOk \in TempInfoResults : TaskSleepReturn(t, tempOk)

\* ------------------------------------------------------------------------
\* Configuration loading (core/config.py, main.py)
\* ------------------------------------------------------------------------

\* os.getenv(name) is None, the attribute is not defined in config.py
Unset == "<unset>"

Keys == {"BOT_TOKEN", "ADMIN_ID", "LOG_LEVEL", "TEMP_SENSORS_COMMAND"}

\* what the environment can hold for each variable
EnvValues ==
    [BOT_TOKEN : {Unset, "", "tokE"}, ADMIN_ID : {Unset, "7", "x"},
     LOG_LEVEL : {Unset, "", "debug"}, TEMP_SENSORS_COMMAND : {Unset, "sensors -u"}]
\* what config.py can define (ADMIN_ID as str() renders it)
FileValues ==
    [BOT_TOKEN : {Unset, "tokF"}, ADMIN_ID : {Unset, "9"},
     LOG_LEVEL : {Unset, "WARNING"}, TEMP_SENSORS_COMMAND : {Unset, "cat temp"}]
NoFile == [k \in Keys |-> Unset]

\* str.upper()
Upper(s) == IF s = "debug" THEN "DEBUG" ELSE s

\* the truth value Python gives None and ""
Truthy(v) == v # Unset /\ v # ""
\* Python's `a or b`
Or(a, b) == IF Truthy(a) THEN a ELSE b
\* os.getenv(name, default)
getenv(env, name, default) == IF env[name] = Unset THEN default ELSE env[name]
\* getattr(_config, name, default)
getattr(file, name, default) == IF file[name] = Unset THEN default ELSE file[name]
\* int(ADMIN_ID): the decimal texts it accepts (ValueError otherwise)
ParseInt == [s \in {"7", "9"} |-> IF s = "7" THEN 7 ELSE 9]

\* core/config.py:45-58, main.py:161-173: the validation both loaders end with
Validate(c) ==
    [c EXCEPT !.exited = \/ ~Truthy(c.BOT_TOKEN)
                         \/ ~Truthy(c.ADMIN_ID)
                         \/ c.ADMIN_ID \notin DOMAIN ParseInt]

\* core/config.py:17-43; exists: <project root>/config.py is there
core_config(env, file, exists) ==
    LET level0 == Upper(getenv(env, "LOG_LEVEL", "INFO"))
        token0 == env["BOT_TOKEN"]
        admin0 == env["ADMIN_ID"]
        temp0 == env["TEMP_SENSORS_COMMAND"]
    IN Validate(
        IF exists
        THEN [BOT_TOKEN |-> Or(token0, getattr(file, "BOT_TOKEN", Unset)),
              ADMIN_ID |-> Or(admin0, getattr(file, "ADMIN_ID", "")),
              LOG_LEVEL |-> Upper(getenv(env, "LOG_LEVEL",
                                         getattr(file, "LOG_LEVEL", level0))),
              TEMP_SENSORS_COMMAND |->
                  IF ~Truthy(temp0) THEN getattr(file, "TEMP_SENSORS_COMMAND", Unset)
                  ELSE temp0,
              exited |-> FALSE]
        ELSE [BOT_TOKEN |-> token0, ADMIN_ID |-> admin0, LOG_LEVEL |-> level0,
              TEMP_SENSORS_COMMAND |-> temp0, exited |-> FALSE])

\* main.py:141-159; exists: config.py is there, next to main.py
main_config(env, file, exists) ==
    LET level0 == Upper(getenv(env, "LOG_LEVEL", "INFO"))
        token0 == env["BOT_TOKEN"]
        admin0 == env["ADMIN_ID"]
        temp0 == env["TEMP_SENSORS_COMMAND"]
    IN Validate(
        IF exists
        THEN [BOT_TOKEN |-> Or(token0, getattr(file, "BOT_TOKEN", Unset)),
              ADMIN_ID |-> Or(admin0, getattr(file, "ADMIN_ID", "")),
              LOG_LEVEL |-> Or(level0, getattr(file, "LOG_LEVEL", "INFO")),
              TEMP_SENSORS_COMMAND |->
                  IF ~Truthy(temp0) THEN getattr(file, "TEMP_SENSORS_COMMAND", Unset)
                  ELSE temp0,
              exited |-> FALSE]
        ELSE [BOT_TOKEN |-> token0, ADMIN_ID |-> admin0, LOG_LEVEL |-> level0,
              TEMP_SENSORS_COMMAND |-> temp0, exited |-> FALSE])

NotLoaded ==
    [loaded |-> FALSE, env |-> NoFile, file |-> NoFile, exists |-> FALSE,
     core |-> core_config(NoFile, NoFile, FALSE),
     main |-> main_config(NoFile, NoFile, FALSE)]

InitConf == conf = NotLoaded

notConf == <<liveVars, monVars, tempVars, histVars, schedVars, reqVars, cmdVars>>

\* the process starts: the configuration module is imported (both loaders are
\* run on the same environment and config.py, side by side)
ImportConfig(env, file, exists) ==
    /\ ~conf.loaded
    /\ exists \/ file = NoFile
    /\ conf' = [loaded |-> TRUE, env |-> env, file |-> file, exists |-> exists,
                core |-> core_config(env, file, exists),
                main |-> main_config(env, file, exists)]
    /\ UNCHANGED notConf

\* the process ends; the next start imports the configuration anew
Restart ==
    /\ conf.loaded
    /\ conf' = NotLoaded
    /\ UNCHANGED notConf

NextConf ==
    \/ \E env \in EnvValues, file \in FileValues, exists \in BOOLEAN :
          ImportConfig(env, file, exists)
    \/ Restart

Init ==
    /\ InitLive /\ InitMon /\ InitTemp /\ InitHist /\ InitSched
    /\ InitReq /\ InitCmd /\ InitConf

SpecLive == Init /\ [][NextLive]_vars

\* the steps of the updater tasks
TaskNext ==
    \/ \E t \in 1..Len(tasks), tempOk \in TempInfoResults : TaskRun(t, tempOk)
    \/ \E t \in 1..Len(tasks), res \in EditResults : TaskEditReturn(t, res)
    \/ \E t \in 1..Len(tasks), tempOk \in TempInfoResults : TaskSleepReturn(t, tempOk)

\* The live sessions when every edit and sleep of an updater task returns (or
\* raises) and the event loop resumes the task: a task that can take a step
\* takes one eventually.
SpecLiveFair == SpecLive /\ WF_vars(TaskNext)

SpecMon == Init /\ [][NextMon]_vars
SpecTemp == Init /\ [][NextTemp]_vars
SpecCmd == Init /\ [][NextCmd]_vars
SpecReq == Init /\ [][NextReq]_vars
SpecAuth == Init /\ [][NextAuth]_vars
SpecConf == Init /\ [][NextConf]_vars

\* The alert scan as main starts it (bot.py:855), an asyncio task of its own.
\* The event loop resumes a task whose await has completed, and every sleep,
\* read and delivery completes or raises: the loop takes its next step
\* eventually.
SpecMonFair == SpecMon /\ WF_vars(NextMon)

\* The report loop and the overheat loop (bot.py:856-857) under the same
\* scheduling, each a task of its own.
SpecSmallLoopsFair ==
    /\ Init
    /\ [][NextTemp \/ NextSched]_vars
    /\ WF_vars(NextTemp)
    /\ WF_vars(NextSched)

\* ------------------------------------------------------------------------
\* Claims about the live sessions
\* ------------------------------------------------------------------------

\* updater tasks of chat c that are neither finished nor asked to cancel
LiveTasks(c) ==
    {t \in 1..Len(tasks) : tasks[t].chat = c /\ tasks[t].pc # "done" /\ ~tasks[t].must_cancel}

\* C1: under every interleaving of start handlers, stop handlers and updater
\* tasks there is never more than one non-terminated updater task for a chat.
\* (A task that stop has already cancelled is not counted.)
C1_AtMostOneLiveTask == \A c \in Chats : Cardinality(LiveTasks(c)) <= 1

\* the calls and returns of the handlers of chat c, in order
ChatLog(c) == SelectSeq(hlog, LAMBDA e : e.chat = c)

\* start was called for c and returned, then start was called again for c
\* while the first session was running, with nothing else in between
TwoStarts(c) ==
    LET l == ChatLog(c)
    IN /\ Len(l) \in {3, 4}
       /\ l[1].ev = "start" /\ l[1].ph = "call"
       /\ l[2].ev = "start" /\ l[2].ph = "ret"
       /\ l[3].ev = "start" /\ l[3].ph = "call" /\ l[3].active
       /\ Len(l) = 4 => l[4].ev = "start" /\ l[4].ph # "call"

\* C2: start, completed, then start again for the same chat with no stop in
\* between and while the first session runs: the registry holds one session
\* for the chat (the first one), one live message was sent in total and no
\* second updater task exists.
C2_SecondStartRefreshes ==
    \A c \in Chats :
        TwoStarts(c) =>
            /\ live_temp_sessions[c] = 1
            /\ live_temp_message_ids[c] = tasks[1].message_id
            /\ msgCreated[c] = 1
            /\ Cardinality({t \in 1..Len(tasks) : tasks[t].chat = c}) = 1

\* C2 witness: the second start has returned after refreshing
C2_Witness ==
    \E c \in Chats : TwoStarts(c) /\ Len(ChatLog(c)) = 4 /\ ChatLog(c)[4].ph = "ret"

\* the ways an updater task ends by itself: budget reached, or an exception
\* of the temperature read or of the edit
SelfExits == {"budget", "read", "error", "gone"}

\* C11: when the updater task of a session has ended because it made its
\* max_updates automatic updates, the registry holds no entry for that session:
\* neither the task map nor the message-id map of the chat refers to it.
C11_BudgetEndRemovesEntry ==
    \A t \in 1..Len(tasks) :
        tasks[t].exit = "budget" =>
            /\ tasks[t].update_count = max_updates
            /\ live_temp_sessions[tasks[t].chat] # t
            /\ live_temp_message_ids[tasks[t].chat] # tasks[t].message_id

\* C12: in the step in which an updater task ends by itself, the registry entry
\* of its chat is removed if and only if that entry refers to the ending task.
C12_CleanupIffOwnEntry ==
    [][\A t \in 1..Len(tasks) :
          (tasks[t].pc # "done" /\ tasks'[t].exit \in SelfExits) =>
              LET c == tasks[t].chat
              IN (live_temp_sessions[c] # None /\ live_temp_sessions'[c] = None)
                    <=> (live_temp_sessions[c] = t)]_vars

\* this step is the call of a handler of the given kind for chat c
CalledNow(kind, c) ==
    /\ Len(handlers') = Len(handlers) + 1
    /\ handlers'[Len(handlers')].kind = kind
    /\ handlers'[Len(handlers')].chat = c

\* the handler called in this step, after it has run to its first await
NewHandler == handlers'[Len(handlers')]

\* the chat's registry entry refers to a task that ended by itself
Expired(c) ==
    /\ live_temp_sessions[c] # None
    /\ tasks[live_temp_sessions[c]].exit \in SelfExits

\* handler h is resumed in this step while it stands at pc
Resumed(h, pc) == handlers[h].pc = pc /\ handlers'[h].pc # pc

LiveUnchanged == UNCHANGED <<live_temp_sessions, live_temp_message_ids, tasks, msgCreated>>

\* C14 as stated: a start called while the chat's session runs creates no
\* message and no task and leaves the registry alone, it attempts exactly one
\* refresh edit, against the registered message id, and the return of that edit
\* (success or failure) changes nothing either.
C14_ActiveStartRefreshesOnce ==
    [][\A c \in Chats :
          /\ (Running(c) /\ CalledNow("start", c)) =>
                /\ LiveUnchanged
                /\ NewHandler.pc = "refresh_edit"
                /\ NewHandler.msg = live_temp_message_ids[c]
          /\ \A h \in 1..Len(handlers) :
                Resumed(h, "refresh_edit") => LiveUnchanged /\ handlers'[h].pc = "answer"]_vars

\* C14 amended: as above, but the refresh edit is attempted at most once: it
\* is skipped when reading or rendering the temperature raises.
C14_ActiveStartRefreshesAtMostOnce ==
    [][\A c \in Chats :
          /\ (Running(c) /\ CalledNow("start", c)) =>
                /\ LiveUnchanged
                /\ NewHandler.pc \in {"refresh_edit", "answer"}
                /\ NewHandler.pc = "refresh_edit" => NewHandler.msg = live_temp_message_ids[c]
          /\ \A h \in 1..Len(handlers) :
                Resumed(h, "refresh_edit") => LiveUnchanged /\ handlers'[h].pc = "answer"]_vars

\* C14 witness: a second start found the session running and its refresh edit
\* of the registered message is in flight; the session is still the registered one
C14_Witness ==
    \E c \in Chats, h \in 1..Len(handlers) :
        /\ h > 1
        /\ handlers[h].kind = "start" /\ handlers[h].chat = c
        /\ handlers[h].pc = "refresh_edit" /\ handlers[h].msg = 1
        /\ Len(tasks) = 1 /\ msgCreated[c] = 1
        /\ live_temp_sessions[c] = 1 /\ live_temp_message_ids[c] = 1
        /\ \A i \in 1..Len(hlog) : hlog[i].ev = "start"

\* C15: a stop called while the chat's session runs requests the cancellation
\* of the session's task and removes the chat's entry from both maps; a task
\* whose cancellation was requested starts no further edit and counts no
\* further update.
C15_StopCancelsAndRemoves ==
    [][/\ \A c \in Chats :
            (Running(c) /\ CalledNow("stop", c)) =>
                /\ tasks'[live_temp_sessions[c]].must_cancel
                /\ live_temp_sessions'[c] = None
                /\ live_temp_message_ids'[c] = None
       /\ \A t \in 1..Len(tasks) :
            tasks[t].must_cancel =>
                /\ tasks'[t].pc = "edit" => tasks[t].pc = "edit"
                /\ tasks'[t].update_count = tasks[t].update_count]_vars

\* C15 witness: a session that had made an update was stopped, the stop
\* handler has returned and the cancelled task has ended
C15_Witness ==
    \E c \in Chats, t \in 1..Len(tasks) :
        /\ tasks[t].chat = c
        /\ tasks[t].exit \in {"cancelled_edit", "cancelled_sleep"}
        /\ tasks[t].update_count >= 1
        /\ live_temp_sessions[c] = None
        /\ \E i \in 1..Len(hlog) : hlog[i].ev = "stop" /\ hlog[i].ph = "ret"

C17_EditFailureContinues ==
    \A t \in 1..Len(tasks) : tasks[t].exit # "error"

\* C18: a cancellation requested while the edit call is in flight does not
\* interrupt the call: no task ends by cancellation at the edit.
C18_NoCancelMidEdit ==
    \A t \in 1..Len(tasks) : tasks[t].exit # "cancelled_edit"

\* ------------------------------------------------------------------------
\* Claims about the alert state machine
\* ------------------------------------------------------------------------

Numeric(kind) == kind \in {"cpu", "ram", "disk", "temp"}

\* the raise threshold a reading of this kind is compared with (disk: free percent)
Threshold(kind) ==
    IF kind = "cpu" THEN ALERT_CPU_THRESHOLD
    ELSE IF kind = "ram" THEN ALERT_RAM_THRESHOLD
    ELSE IF kind = "disk" THEN ALERT_DISK_THRESHOLD
    ELSE ALERT_TEMP_THRESHOLD

\* the hysteresis margin of spec.md: TEMP_ALERT_HYSTERESIS for temperatures, and
\* the 10 percent of the CPU scenario of section 8 for the percent readings
Hysteresis(kind) == IF kind = "temp" THEN TEMP_ALERT_HYSTERESIS ELSE 10

\* spec.md 4.1: breached, for direction above (cpu, ram, temp) and below (disk)
SpecBreach(kind, v) ==
    IF kind = "disk" THEN v < Threshold(kind) ELSE v > Threshold(kind)

\* spec.md 4.1: the reading has recovered past the hysteresis margin
PastMargin(kind, v) ==
    IF kind = "disk" THEN v >= Threshold(kind) + Hysteresis(kind)
    ELSE v <= Threshold(kind) - Hysteresis(kind)

\* C3: at most one RAISE is delivered per breach episode of a component: while
\* a delivered RAISE is outstanding (no healthy reading since), a breaching
\* reading of the component emits nothing.
C3_OneRaisePerEpisode ==
    last.breach /\ last.dup => last.event = "NONE"

\* C4: a breaching reading of a component that has no RAISE outstanding emits
\* a RAISE in that evaluation and, when it is delivered, leaves the component
\* alerting.
C4_BreachFromOkRaises ==
    last.breach /\ ~last.dup => last.event = "RAISE" /\ (last.ok => last.after)

\* C5: a numeric component that is alerting and reads a value that is neither
\* a breach nor past the hysteresis margin stays alerting and emits nothing.
C5_DipKeepsAlerting ==
    LET kind == last.comp[1]
    IN Numeric(kind) /\ last.before /\ ~SpecBreach(kind, last.value)
           /\ ~PastMargin(kind, last.value)
       => last.after /\ last.event = "NONE"

\* C6: a CLEAR is sent only for a reading past the hysteresis margin; a zone
\* that is alerting and reads exactly the raise threshold stays alerting and
\* no CLEAR is sent for it.
C6_ClearOnlyPastMargin ==
    LET kind == last.comp[1]
    IN /\ last.event = "CLEAR" =>
            /\ last.before
            /\ PastMargin(kind, last.value)
            /\ last.value # Threshold(kind)
       /\ kind = "temp" /\ last.before /\ last.value = Threshold(kind) =>
            last.after /\ last.event = "NONE"

\* C6 witness: a CLEAR has been sent for a zone
C6_Witness == last.comp[1] = "temp" /\ last.event = "CLEAR" /\ ~last.after

\* the reading is a recovery: past the margin for a numeric component, healthy
\* for a service or a container
Recovered(kind, v, breach) ==
    IF Numeric(kind) THEN PastMargin(kind, v) ELSE ~breach

\* C7: the first recovered reading of an alerting component sends the one
\* CLEAR and leaves the component not alerting; a recovered reading of a
\* component that is not alerting sends nothing.
C7_RecoverySendsOneClear ==
    LET kind == last.comp[1]
    IN kind # "none" /\ Recovered(kind, last.value, last.breach) =>
           /\ ~last.after
           /\ last.event = IF last.before THEN "CLEAR" ELSE "NONE"

\* C8: the CPU readings 95, 92, 88, 79, 96 on successive cycles produce the
\* notifications RAISE(95), CLEAR(79), RAISE(96).
C8_CpuScenario ==
    cpuScn.k = Len(CpuScenario) =>
        cpuScn.ev = << <<"RAISE", 95>>, <<"CLEAR", 79>>, <<"RAISE", 96>> >>

C10_ThresholdIsNotBreach ==
    LET kind == last.comp[1]
    IN Numeric(kind) /\ last.value = Threshold(kind) =>
           ~last.breach /\ last.event # "RAISE"

\* ------------------------------------------------------------------------
\* Claims about failures inside a cycle
\* ------------------------------------------------------------------------

\* C19: a metric read that fails skips only its own component: it never cuts
\* the cycle short, so the components after it (the tracked services and
\* containers among them) are still evaluated in the same cycle.
C19_ReadFailureSkipsOnlyItsComponent == cut.why # "read"

\* C20: when the delivery of a RAISE fails, the component is not marked as
\* alerting, so that the next cycle attempts the RAISE again while the breach
\* lasts.
C20_FailedRaiseIsRetried ==
    (last.event = "RAISE" /\ ~last.ok) => ~last.after

\* C21: no failure inside a cycle ends the alert scan: a cycle that was cut
\* short by an exception goes to the sleep of the loop, and the loop starts a
\* cycle again and again.
C21_LoopsRunForever ==
    /\ [](cut # NoCut => mon.pc = "sleep")
    /\ []<>(mon.pc = "gather")
    /\ []<>(mon.pc = "sleep")

\* C21 witness: a cycle of the alert scan was cut short by a failed delivery,
\* after an earlier cycle had raised the CPU alert
C21_Witness == cut.why = "send" /\ mon.pc = "sleep" /\ last_alerts.cpu

\* C21 for the report loop and the overheat loop (under SpecSmallLoopsFair):
\* each starts a cycle again and again, whatever its reads and deliveries do.
C21_SmallLoopsRunForever ==
    /\ []<>(tmon.pc = "read") /\ []<>(tmon.pc = "sleep")
    /\ []<>(sched = "gather") /\ []<>(sched = "sleep")

\* ------------------------------------------------------------------------
\* Claims about services and containers
\* ------------------------------------------------------------------------

\* the tracked containers
TrackedContainers == {ALERT_DOCKER_CONTAINERS[i] : i \in 1..Len(ALERT_DOCKER_CONTAINERS)}

\* the cycle of the alert scan has run to its end without an exception
CycleCompleted == mon.pc = "sleep" /\ cut = NoCut

\* C22: a tracked container that is not listed is breached: when a cycle has
\* run to its end, every tracked container that the cycle found missing is
\* marked as alerting (its RAISE was sent in this cycle or before), also when
\* no container is listed at all; a container that stays missing after its
\* RAISE gets no further RAISE; one that is listed as running is not alerting.
C22_MissingContainerRaisesOnce ==
    /\ CycleCompleted =>
          \A n \in TrackedContainers : docker_info[n] = "" => n \in last_alerts["service"]
    /\ (last.comp[1] = "container" /\ last.breach /\ last.dup) => last.event = "NONE"
    /\ (last.comp[1] = "container" /\ ~last.breach) => ~last.after

\* C23: the alert flag that the code looks up for a service or a container is
\* that component's own: it is set exactly when a RAISE of this very component
\* was delivered since the component's last healthy reading, whatever happened
\* to the component of the same name of the other kind.
C23_ServiceAndContainerSeparate ==
    last.comp[1] \in {"service", "container"} => (last.before <=> last.dup)

\* ------------------------------------------------------------------------
\* Claims about run_command
\* ------------------------------------------------------------------------

\* C24: run_command never keeps its caller waiting past the timeout and never
\* raises because of the exit code: a command still running when the timeout
\* is reached is killed and the call returns (124, "", the timeout message);
\* a command that ends before the timeout gives its own exit code and its
\* decoded output; at equal times either of the two; the only exception that
\* leaves the call is that of a process that could not be spawned.
C24_RunCommandContract ==
    /\ proc.pc \in {"communicate", "wait", "returned"} => proc.clock <= proc.timeout
    /\ proc.pc = "returned" =>
          \/ /\ proc.dur >= proc.timeout
             /\ ~proc.alive
             /\ proc.result.rc = 124
             /\ proc.result.stdout = <<>>
             /\ proc.result.stderr = TimeoutMessage(proc.timeout)
          \/ /\ proc.dur <= proc.timeout
             /\ proc.result.rc = proc.returncode
             /\ proc.result.stdout = Decode(proc.stdout_b)
             /\ proc.result.stderr = Decode(proc.stderr_b)
    /\ proc.pc = "raised" => (~proc.alive /\ proc.result = NoResult)

\* a command that outlives its timeout has been killed and the call has returned
C24_Witness ==
    /\ proc.pc = "returned"
    /\ proc.dur > proc.timeout
    /\ proc.result.rc = 124
    /\ proc.returncode = 1
    /\ proc.stdout_b # <<>>

\* ------------------------------------------------------------------------
\* Claims about the request handlers
\* ------------------------------------------------------------------------

\* bot.py:606-642, 279-301: the operations that change the system
PrivilegedOps == ConfirmOps \cup {"start", "stop", "restart"}

\* C26: a privileged operation (reboot, shutdown, package update, service
\* start, stop, restart) is being executed only if the confirmation prompt of
\* that operation has been displayed and the request that runs it is the tap
\* of a button, never a message command.
C26_PrivilegedOnlyAfterConfirmation ==
    running.op \in PrivilegedOps =>
        (running.op \in prompted /\ running.via = "button")

\* C27: while the update being dispatched comes from somebody who is not the
\* administrator, no handler body of the live sessions is entered (so the
\* registry is touched only by what the administrator started earlier), no
\* external command is started, and the step that answers with the refusal
\* changes nothing else.
C27_NonAdminHasNoEffect ==
    [][(from_user # ADMIN_ID_INT /\ from_user' = from_user) =>
          /\ Len(handlers') = Len(handlers)
          /\ running' \in {running, NoCommand}
          /\ refused' # refused =>
                UNCHANGED <<live_temp_sessions, live_temp_message_ids, tasks,
                            buttons, prompted, running>>]_vars

\* somebody else tapped the stop button of a running live session and got the
\* refusal
C27_Witness ==
    /\ from_user = 2
    /\ refused = "cb_stop_live_temperature"
    /\ \E c \in Chats : Running(c) /\ live_temp_message_ids[c] # None

\* ------------------------------------------------------------------------
\* Claims about the configuration
\* ------------------------------------------------------------------------

\* the value a loader ended with is the given one (the log level is compared
\* in upper case, as the loaders normalise it)
SameValue(k, got, given) ==
    IF k = "LOG_LEVEL" THEN Upper(got) = Upper(given) ELSE got = given

\* C28: in both loaders, for BOT_TOKEN, ADMIN_ID, LOG_LEVEL and
\* TEMP_SENSORS_COMMAND, a start that passes the validation has taken the
\* value from the environment variable when that is set (to something), and
\* from config.py when the variable is not set and config.py defines it.
C28_EnvThenConfigFile ==
    conf.loaded =>
        \A loader \in {"core", "main"}, k \in Keys :
            ~conf[loader].exited =>
                /\ Truthy(conf.env[k]) => SameValue(k, conf[loader][k], conf.env[k])
                /\ (conf.env[k] = Unset /\ conf.exists /\ conf.file[k] # Unset) =>
                       SameValue(k, conf[loader][k], conf.file[k])

\* ------------------------------------------------------------------------
\* Claims about the container listing and the boolean components
\* ------------------------------------------------------------------------

\* C29: a failed container listing (get_docker_info then returns the empty
\* DockerInfo) is no reading: the cycle goes on to its sleep without an
\* exception, no container is evaluated on it (so no container notification
\* is sent) and the alert state is left as it was.
C29_DockerFailureIsNoReading ==
    /\ [](last.comp[1] = "container" => docker_info # NoDocker)
    /\ [][(/\ mon.pc = "service"
           /\ mon.i > Len(ALERT_SERVICES)
           /\ mon' # mon
           /\ \E outcome \in DockerOutcomes \ {"ok"} :
                 docker_info' = get_docker_info(outcome, docker_info))
              => /\ mon'.pc = "sleep"
                 /\ UNCHANGED <<last_alerts, last, episode, cut>>]_vars

\* the listing failed in a cycle that ran to its end while the alert of the
\* tracked container redis, raised in an earlier cycle, is kept
C29_Witness ==
    /\ mon.pc = "sleep"
    /\ cut = NoCut
    /\ last.comp[1] = "service"
    /\ docker_info = NoDocker
    /\ "redis" \in last_alerts["service"]

BooleanKinds == {"service", "container"}

\* C30: a healthy reading of a tracked service or container leaves it not
\* alerting at once, and an unhealthy reading of one that has had no RAISE
\* delivered since its last healthy reading emits a RAISE.
C30_ClearsAtOnceThenRaisesAgain ==
    last.comp[1] \in BooleanKinds =>
        /\ ~last.breach => ~last.after
        /\ (last.breach /\ ~last.dup) => last.event = "RAISE"

\* ------------------------------------------------------------------------
\* Claims about absent components
\* ------------------------------------------------------------------------

ZoneNames == {Zones[i] : i \in 1..Len(Zones)}

\* C31: a temperature zone that the cycle's reading does not report (an empty
\* reading reports none) is not evaluated: only reported zones are evaluated,
\* the alert flag of a zone changes and an evaluation of it is made only in
\* the step that visits it with a reading, and a zone that is alerting when a
\* breaching reading of it arrives emits nothing and stays alerting.
C31_AbsentZoneNotEvaluated ==
    /\ [](last.comp[1] = "temp" => temps[last.comp[2]] # None)
    /\ [][\A z \in ZoneNames :
             (\/ (z \in overheated_now) # (z \in overheated_now')
              \/ (last' # last /\ last'.comp = Comp("temp", z)))
                 => (/\ tmon.pc = "zone"
                     /\ tmon.i <= Len(Zones)
                     /\ Zones[tmon.i] = z
                     /\ temps[z] # None)]_vars
    /\ []((last.comp[1] = "temp" /\ last.breach /\ last.before)
             => (last.event = "NONE" /\ last.after))

\* the zone gpu is alerting and the cycle has passed it without a reading of it
C31_Witness ==
    /\ tmon.pc = "zone"
    /\ tmon.i > Len(Zones)
    /\ temps["gpu"] = None
    /\ "gpu" \in overheated_now
    /\ last.comp = Comp("temp", "cpu")

Mounts == {"/", "/data"}

\* C31 for the disks: only the mounts of status.disks are evaluated, and the
\* alert flag of a mount changes and an evaluation of it is made only in the
\* step that visits it; a mount that is alerting when a breaching reading of
\* it arrives emits nothing and stays alerting.
C31_AbsentDiskNotEvaluated ==
    /\ []((mon.pc = "disk" /\ last.comp[1] = "disk")
             => \E i \in 1..Len(status.disks) : status.disks[i].mount = last.comp[2])
    /\ [][\A m \in Mounts :
             (\/ (m \in last_alerts.disk) # (m \in last_alerts'.disk)
              \/ (last' # last /\ last'.comp = Comp("disk", m)))
                 => (/\ mon.pc = "disk"
                     /\ mon.i <= Len(status.disks)
                     /\ status.disks[mon.i].mount = m)]_vars
    /\ []((last.comp[1] = "disk" /\ last.breach /\ last.before)
             => (last.event = "NONE" /\ last.after))

\* the mount /data is alerting and the disks of a cycle, /data not among them,
\* have been walked
C31_DiskWitness ==
    /\ mon.pc = "disk"
    /\ Len(status.disks) = 1
    /\ mon.i = 2
    /\ "/data" \in last_alerts.disk

\* ------------------------------------------------------------------------
\* Claims about the updater task
\* ------------------------------------------------------------------------

\* C32: every automatic edit of the live message comes after a sleep of the
\* interval: an updater task reaches its edit only from its sleep (sleep,
\* resample, edit, increment), never straight from its creation.
C32_EditOnlyAfterSleep ==
    [][\A t \in 1..Len(tasks) :
          (tasks'[t].pc = "edit" /\ tasks[t].pc # "edit") => tasks[t].pc = "sleep"]_vars

\* C33: the update_count of an updater task stays between 0 and max_updates,
\* an edit is awaited only while it is below max_updates (so a task makes at
\* most max_updates edits), and it changes only by one, in the step in which
\* an edit returns successfully to a task that is not being cancelled.
C33_UpdateCountWithinBudget ==
    /\ [](\A t \in 1..Len(tasks) :
             /\ tasks[t].update_count \in 0..max_updates
             /\ tasks[t].pc = "edit" => tasks[t].update_count < max_updates)
    /\ [][\A t \in 1..Len(tasks) :
             tasks'[t].update_count # tasks[t].update_count =>
                 /\ tasks[t].pc = "edit"
                 /\ ~tasks[t].must_cancel
                 /\ tasks'[t].pc = "sleep"
                 /\ tasks'[t].update_count = tasks[t].update_count + 1]_vars

\* a task has made max_updates successful edits and has ended on its budget
C33_Witness ==
    \E t \in 1..Len(tasks) :
        tasks[t].update_count = max_updates /\ tasks[t].exit = "budget"

\* C34: every updater task that was created ends: by a stop, by an error or
\* on its budget, given that its edits and sleeps return.
C34_EverySessionEnds ==
    \A t \in 1..MaxCalls :
        (Len(tasks) >= t) ~> (Len(tasks) >= t /\ tasks[t].pc = "done")

\* two sessions have ended, the first on its budget and the second on an error
C34_Witness ==
    /\ Len(tasks) = 2
    /\ tasks[1].pc = "done" /\ tasks[1].exit = "budget"
    /\ tasks[2].pc = "done" /\ tasks[2].exit \in {"error", "gone"}

\* ------------------------------------------------------------------------
\* Claims about the registry
\* ------------------------------------------------------------------------

\* C35: wherever handlers and tasks stand at their awaits, the two maps of
\* the registry agree: a chat has a task registered exactly when it has a
\* message id registered, and that id is the message id the registered task
\* was created with.
C35_RegistryMapsAgree ==
    \A c \in Chats :
        /\ live_temp_sessions[c] = None <=> live_temp_message_ids[c] = None
        /\ live_temp_sessions[c] # None =>
              live_temp_message_ids[c] = tasks[live_temp_sessions[c]].message_id

\* a second start has registered its task and message over the entry of a
\* first session whose task has not ended
C35_Witness ==
    \E c \in Chats :
        /\ live_temp_sessions[c] = 2
        /\ live_temp_message_ids[c] = 2
        /\ tasks[1].chat = c
        /\ tasks[1].pc # "done"

SendFails(h) ==
    /\ handlers[h].kind = "start"
    /\ handlers[h].pc = "send"
    /\ handlers'[h].pc = "fallback_answer"

\* C37: when the send of the initial live message of a fresh start raises,
\* no updater task is created, the chat has no registry entry afterwards, and
\* the handler goes on to its final answer once the error has been reported:
\* no exception leaves it from the error report.
C37_FailedSendIsReported ==
    /\ [][\A h \in 1..Len(handlers) :
             SendFails(h) =>
                 /\ tasks' = tasks
                 /\ live_temp_sessions'[handlers[h].chat] = None
                 /\ live_temp_message_ids'[handlers[h].chat] = None]_vars
    /\ [][\A h \in 1..Len(handlers) :
             (handlers[h].send_failed /\ handlers'[h].pc # handlers[h].pc)
                 => handlers'[h].pc = "answer"]_vars

\* ------------------------------------------------------------------------
\* Claims about failed deliveries in the alert scan
\* ------------------------------------------------------------------------

\* the tracked services
TrackedServices == {ALERT_SERVICES[i] : i \in 1..Len(ALERT_SERVICES)}

\* C38: every component that background_monitoring holds as alerting has had
\* a RAISE delivered since its last healthy reading.
C38_AlertingOnlyAfterDeliveredRaise ==
    /\ last_alerts.cpu => Comp("cpu", "") \in episode
    /\ last_alerts.ram => Comp("ram", "") \in episode
    /\ \A m \in last_alerts.disk : Comp("disk", m) \in episode
    /\ \A n \in last_alerts["service"] :
          /\ n \in TrackedServices => Comp("service", n) \in episode
          /\ n \in TrackedContainers => Comp("container", n) \in episode

\* C39: when the delivery of a notification raises, the cycle is abandoned:
\* the failed evaluation changes no alert state, the loop stands at its sleep
\* with that evaluation as its last one, and the next step is the end of the
\* sleep, which evaluates nothing and changes no alert state; components
\* after the failing one are evaluated again only in a later cycle.
C39_FailedSendAbandonsCycle ==
    /\ [](cut.why = "send" =>
             /\ mon.pc = "sleep"
             /\ last.comp[1] = cut.at /\ last.event = "RAISE" /\ ~last.ok)
    /\ [][(cut'.why = "send" /\ cut' # cut) => last_alerts' = last_alerts]_vars
    /\ [][cut.why = "send" =>
             /\ mon'.pc = "gather"
             /\ last' = NoEval
             /\ last_alerts' = last_alerts
             /\ episode' = episode]_vars

\* C39 witness: the delivery of the CPU alert failed and the cycle stands at
\* its sleep while RAM, gathered in breach by the same cycle, is not alerting
C39_Witness ==
    /\ cut = CutBy("cpu", "send")
    /\ mon.pc = "sleep"
    /\ RamBreach(status.ram)
    /\ ~last_alerts.ram
    /\ ~last_alerts.cpu

====
